---- MODULE Spec2Model ----
(***************************************************************************)
(* Model of the notebook get_event_embeddings.ipynb: the event encoder     *)
(* (cell 6), the lookup tables and the document corpus (cell 8), the       *)
(* Word2Vec vocabulary/training call (cell 9) and the labelling of the     *)
(* vocabulary with the lookup tables (cell 13).                            *)
(*                                                                         *)
(* Strings are sequences of one-character strings, so that " ".join,       *)
(* str.split and sorted are computed character by character.               *)
(***************************************************************************)
EXTENDS Integers, Sequences, FiniteSets, TLC

VARIABLES pc, error, columns, res, df, desc, hash,
          hash2text, hash2event, docs, docRows, ev2vec, tsne_df

vars == <<pc, error, columns, res, df, desc, hash,
          hash2text, hash2event, docs, docRows, ev2vec, tsne_df>>

\* ------------------------------------------------------------------------
\* Bounds of the model
\* ------------------------------------------------------------------------

\* Largest number of event records in the dataset.
MaxRows == 3

\* ------------------------------------------------------------------------
\* Characters and strings
\* ------------------------------------------------------------------------

SP == " "

\* Code points of the characters used (Python compares str by code point).
Ord == (" " :> 32) @@ ("0" :> 48) @@ ("1" :> 49) @@ ("2" :> 50) @@ ("3" :> 51)
       @@ ("4" :> 52) @@ ("5" :> 53) @@ ("6" :> 54) @@ ("7" :> 55)
       @@ ("8" :> 56) @@ ("9" :> 57) @@ ("_" :> 95) @@ ("a" :> 97)
       @@ ("b" :> 98) @@ ("c" :> 99) @@ ("d" :> 100) @@ ("e" :> 101)
       @@ ("f" :> 102) @@ ("h" :> 104) @@ ("i" :> 105) @@ ("k" :> 107)
       @@ ("l" :> 108) @@ ("o" :> 111) @@ ("p" :> 112) @@ ("s" :> 115)
       @@ ("t" :> 116) @@ ("v" :> 118) @@ ("y" :> 121)

\* Indicator column names produced by the feature extractor.
pass == <<"p", "a", "s", "s">>
pass_fail == <<"p", "a", "s", "s", "_", "f", "a", "i", "l">>
tackle == <<"t", "a", "c", "k", "l", "e">>
shot == <<"s", "h", "o", "t">>
shot_volley == <<"s", "h", "o", "t", "_", "v", "o", "l", "l", "e", "y">>

\* Python's str < str: lexicographic by code point, a proper prefix first.
RECURSIVE StrLess(_, _)
StrLess(a, b) ==
  IF b = <<>> THEN FALSE
  ELSE IF a = <<>> THEN TRUE
  ELSE IF Ord[Head(a)] < Ord[Head(b)] THEN TRUE
  ELSE IF Ord[Head(a)] > Ord[Head(b)] THEN FALSE
  ELSE StrLess(Tail(a), Tail(b))

\* Insert x into the ascending list s, after the elements not greater than it.
RECURSIVE Insert(_, _)
Insert(x, s) ==
  IF s = <<>> THEN <<x>>
  ELSE IF StrLess(x, Head(s)) THEN <<x>> \o s
  ELSE <<Head(s)>> \o Insert(x, Tail(s))

\* A plausible slip: the list is used in column order, not sorted.
SortedUnsorted(s) == s

\* sorted(list of str): ascending, stable.
RECURSIVE Sorted(_)
Sorted(s) ==
  IF s = <<>> THEN <<>>
  ELSE Insert(s[Len(s)], Sorted(SubSeq(s, 1, Len(s) - 1)))

\* sep.join(list of str)
RECURSIVE Join(_, _)
Join(sep, s) ==
  IF s = <<>> THEN <<>>
  ELSE IF Len(s) = 1 THEN s[1]
  ELSE s[1] \o sep \o Join(sep, Tail(s))

\* str.split() with no argument: the maximal runs of non-whitespace characters.
RECURSIVE SplitFrom(_, _, _)
SplitFrom(s, cur, out) ==
  IF s = <<>> THEN (IF cur = <<>> THEN out ELSE Append(out, cur))
  ELSE IF Head(s) = SP
       THEN SplitFrom(Tail(s), <<>>, IF cur = <<>> THEN out ELSE Append(out, cur))
       ELSE SplitFrom(Tail(s), Append(cur, Head(s)), out)

Split(s) == SplitFrom(s, <<>>, <<>>)

\* ------------------------------------------------------------------------
\* Cell 6: the event encoder
\* ------------------------------------------------------------------------

\* id2cols = dict(enumerate(res.columns)): position (from 0) -> column name.
id2cols == [k \in 0 .. Len(columns) - 1 |-> columns[k + 1]]

\* np.nonzero(row) (summed out of its 1-tuple): the positions, from 0 and
\* ascending, of the nonzero entries of the row.
RECURSIVE NonZeroFrom(_, _)
NonZeroFrom(row, k) ==
  IF k > Len(row) THEN <<>>
  ELSE (IF row[k] # 0 THEN <<k - 1>> ELSE <<>>) \o NonZeroFrom(row, k + 1)

NonZero(row) == NonZeroFrom(row, 1)

\* " ".join(sorted([id2cols[k] for k in x]))
EncodedLabel(row) ==
  LET x == NonZero(row)
  IN Join(<<SP>>, Sorted([n \in 1 .. Len(x) |-> id2cols[x[n]]]))

\* Width, in hexadecimal digits, of an Event Id.
HashWidth == 2

HexDigits == <<"0", "1", "2", "3", "4", "5", "6", "7",
               "8", "9", "a", "b", "c", "d", "e", "f">>

RECURSIVE Pow16(_)
Pow16(n) == IF n = 0 THEN 1 ELSE 16 * Pow16(n - 1)

\* The digest, as a number below 16^HashWidth, of the characters of a label.
RECURSIVE Digest(_, _)
Digest(s, h) ==
  IF s = <<>> THEN h
  ELSE Digest(Tail(s), (h * 31 + Ord[Head(s)]) % Pow16(HashWidth))

\* ps.get_hash(label): a deterministic fixed-width hexadecimal digest.
get_hash(label) ==
  LET h == Digest(label, 7)
  IN [k \in 1 .. HashWidth |->
        HexDigits[((h \div Pow16(HashWidth - k)) % 16) + 1]]

\* Cell 6: df['desc'] and df['hash'] are computed for every record.
Cell6_Encode ==
  /\ pc = "cell6"
  /\ desc' = [i \in 1 .. Len(res) |-> EncodedLabel(res[i])]
  /\ hash' = [i \in 1 .. Len(res) |-> get_hash(EncodedLabel(res[i]))]
  /\ pc' = "cell8"
  /\ UNCHANGED <<error, columns, res, df, hash2text, hash2event,
                 docs, docRows, ev2vec, tsne_df>>

\* ------------------------------------------------------------------------
\* Cell 8: lookup tables and documents
\* ------------------------------------------------------------------------

\* A plausible slip: drop_duplicates(keep=False) drops every repeated row.
DropAllRepeated(s) ==
  SelectSeq(s, LAMBDA p : Cardinality({i \in 1 .. Len(s) : s[i] = p}) = 1)

\* DataFrame.drop_duplicates(): the first occurrence of every row, in order.
RECURSIVE drop_duplicates(_)
drop_duplicates(s) ==
  IF s = <<>> THEN <<>>
  ELSE LET init == drop_duplicates(SubSeq(s, 1, Len(s) - 1))
           last == s[Len(s)]
       IN IF \E i \in 1 .. Len(init) : init[i] = last
          THEN init ELSE Append(init, last)

\* {k: v for _, (k, v) in rows}: a later pair overwrites an earlier one.
RECURSIVE Dict(_)
Dict(pairs) ==
  IF pairs = <<>> THEN <<>>
  ELSE LET p == pairs[Len(pairs)]
       IN (p[1] :> p[2]) @@ Dict(SubSeq(pairs, 1, Len(pairs) - 1))

\* A plausible slip: the records with an empty label are left out.
Hash2TextNonEmpty(h, d) ==
  Dict(drop_duplicates(SelectSeq([i \in 1 .. Len(h) |-> <<h[i], d[i]>>],
                                 LAMBDA p : p[2] # <<>>)))

\* hash2text, from df[['hash', 'desc']]
Hash2Text(h, d) == Dict(drop_duplicates([i \in 1 .. Len(h) |-> <<h[i], d[i]>>]))

\* hash2event, from df[['hash', 'type_id']]
Hash2Event(h, rows) ==
  Dict(drop_duplicates([i \in 1 .. Len(h) |-> <<h[i], rows[i].type_id>>]))

\* A plausible slip: match_id is left out of the grouping key.
GroupKeyNoMatch(r) == <<r.period_id, r.SPLIT>>

\* The key of groupby(['match_id', 'period_id', 'SPLIT']).
GroupKey(r) == <<r.match_id, r.period_id, r.SPLIT>>

\* Tuples of numbers compare lexicographically (False and True are 0 and 1).
RECURSIVE KeyLess(_, _)
KeyLess(a, b) ==
  IF b = <<>> THEN FALSE
  ELSE IF a = <<>> THEN TRUE
  ELSE IF Head(a) < Head(b) THEN TRUE
  ELSE IF Head(a) > Head(b) THEN FALSE
  ELSE KeyLess(Tail(a), Tail(b))

\* The distinct keys in ascending order (groupby sorts the group keys).
RECURSIVE SortedKeys(_)
SortedKeys(K) ==
  IF K = {} THEN <<>>
  ELSE LET m == CHOOSE k \in K : \A o \in K \ {k} : KeyLess(k, o)
       IN <<m>> \o SortedKeys(K \ {m})

\* The rows (positions in df, ascending) of the group with key k.
RECURSIVE GroupRowsFrom(_, _, _)
GroupRowsFrom(rows, k, i) ==
  IF i > Len(rows) THEN <<>>
  ELSE (IF GroupKey(rows[i]) = k THEN <<i>> ELSE <<>>)
       \o GroupRowsFrom(rows, k, i + 1)

\* groupby(...).agg({"hash": " ".join}).hash.tolist(), each document with
\* the rows it was joined from.
GroupedDocs(rows, h) ==
  LET keys == SortedKeys({GroupKey(rows[i]) : i \in 1 .. Len(rows)})
  IN [g \in 1 .. Len(keys) |->
        LET members == GroupRowsFrom(rows, keys[g], 1)
        IN [text |-> Join(<<SP>>, [n \in 1 .. Len(members) |-> h[members[n]]]),
            rows |-> members]]

\* A plausible slip: the filter keeps every non-empty document.
KeepDocNonEmpty(d) == Len(Split(d)) > 0

\* len(d.split()) > 1
KeepDoc(d) == Len(Split(d)) > 1

\* A plausible slip: the summary guards the empty corpus and never raises.
SummaryGuarded(d) == "none"

\* print("Average length of doc : %d" % np.mean([...])): the mean of an
\* empty list is nan, and "%d" % nan raises ValueError.
Summary(d) == IF d = <<>> THEN "ValueError" ELSE "none"

Cell8_Corpus ==
  /\ pc = "cell8"
  /\ hash2text' = Hash2Text(hash, desc)
  /\ hash2event' = Hash2Event(hash, df)
  /\ LET kept == SelectSeq(GroupedDocs(df, hash), LAMBDA g : KeepDoc(g.text))
     IN /\ docs' = [k \in 1 .. Len(kept) |-> kept[k].text]
        /\ docRows' = [k \in 1 .. Len(kept) |-> kept[k].rows]
  /\ error' = Summary(docs')
  /\ pc' = IF error' = "none" THEN "cell9" ELSE "failed"
  /\ UNCHANGED <<columns, res, df, desc, hash, ev2vec, tsne_df>>

\* ------------------------------------------------------------------------
\* Cell 9: vocabulary and training
\* ------------------------------------------------------------------------

\* Word2Vec(..., min_count=0, ...)
min_count == 0

\* [d.split() for d in docs]
Sentences(d) == [k \in 1 .. Len(d) |-> Split(d[k])]

\* The number of occurrences of the word w in the sentences.
WordCount(sentences, w) ==
  Cardinality(UNION {{<<k, n>> : n \in {m \in 1 .. Len(sentences[k]) :
                                            sentences[k][m] = w}} :
                       k \in 1 .. Len(sentences)})

\* build_vocab: the words that occur at least min_count times.
Vocab(sentences) ==
  LET words == UNION {{sentences[k][n] : n \in 1 .. Len(sentences[k])} :
                        k \in 1 .. Len(sentences)}
  IN {w \in words : WordCount(sentences, w) >= min_count}

\* build_vocab then train; train raises RuntimeError on an empty vocabulary.
Cell9_Train ==
  /\ pc = "cell9"
  /\ ev2vec' = [built |-> TRUE,
                vocab |-> Vocab(Sentences(docs)),
                corpus_count |-> Len(docs)]
  /\ error' = IF ev2vec'.vocab = {} THEN "RuntimeError" ELSE "none"
  /\ pc' = IF error' = "none" THEN "cell13" ELSE "failed"
  /\ UNCHANGED <<columns, res, df, desc, hash, hash2text, hash2event,
                 docs, docRows, tsne_df>>

\* ------------------------------------------------------------------------
\* Cell 13: the vocabulary is labelled with the lookup tables
\* ------------------------------------------------------------------------

\* [hash2text[e] for e in vocab], [hash2event[e] for e in vocab]: a missing
\* key raises KeyError.
Cell13_Labels ==
  /\ pc = "cell13"
  /\ IF ev2vec.vocab \subseteq (DOMAIN hash2text \cap DOMAIN hash2event)
     THEN /\ tsne_df' = [e \in ev2vec.vocab |->
                           [text |-> hash2text[e], event_type |-> hash2event[e]]]
          /\ error' = "none"
          /\ pc' = "done"
     ELSE /\ tsne_df' = tsne_df
          /\ error' = "KeyError"
          /\ pc' = "failed"
  /\ UNCHANGED <<columns, res, df, desc, hash, hash2text, hash2event,
                 docs, docRows, ev2vec>>

Next == Cell6_Encode \/ Cell8_Corpus \/ Cell9_Train \/ Cell13_Labels

\* ------------------------------------------------------------------------
\* The datasets
\* ------------------------------------------------------------------------

\* The row of the feature table for a record with the given active columns.
Indicators(cols, active) ==
  [k \in 1 .. Len(cols) |-> IF cols[k] \in active THEN 1 ELSE 0]

\* The state after cell 1..5: the dataset is read, aligned and its features
\* extracted; nothing else is assigned yet.
InitWith(colOrders, matchIds, periodIds, splits, typeIds, activeSets) ==
  /\ pc = "cell6"
  /\ error = "none"
  /\ columns \in colOrders
  /\ \E n \in 0 .. MaxRows :
       \E recs \in [1 .. n -> [match_id : matchIds, period_id : periodIds,
                               SPLIT : splits, type_id : typeIds]] :
         \E act \in [1 .. n -> activeSets] :
           /\ df = recs
           /\ res = [i \in 1 .. n |-> Indicators(columns, act[i])]
  /\ desc = <<>>
  /\ hash = <<>>
  /\ hash2text = <<>>
  /\ hash2event = <<>>
  /\ docs = <<>>
  /\ docRows = <<>>
  /\ ev2vec = [built |-> FALSE, vocab |-> {}, corpus_count |-> 0]
  /\ tsne_df = <<>>

\* Documents: several matches, periods and SPLIT values.
Init ==
  InitWith({<<pass_fail, pass>>}, {1, 2}, {1, 2}, {0, 1}, {"Pass"},
           {{pass}, {pass, pass_fail}})

Spec == Init /\ [][Next]_vars

\* The example: one match and period, the labels pass, pass pass_fail, tackle.
InitExample ==
  InitWith({<<tackle, pass_fail, pass>>}, {1}, {1}, {0, 1}, {"Pass", "Tackle"},
           {{pass}, {pass, pass_fail}, {tackle}})

SpecExample == InitExample /\ [][Next]_vars

\* Lookup tables: several event types and the record with no active column.
InitLookup ==
  InitWith({<<pass_fail, pass>>}, {1}, {1}, {0, 1}, {"Pass", "Foul"},
           {{}, {pass}, {pass, pass_fail}})

SpecLookup == InitLookup /\ [][Next]_vars

\* Encoder: every column order and every set of active columns.
InitEncoder ==
  InitWith({<<shot, shot_volley, pass>>, <<shot, pass, shot_volley>>,
            <<shot_volley, shot, pass>>, <<shot_volley, pass, shot>>,
            <<pass, shot, shot_volley>>, <<pass, shot_volley, shot>>},
           {1}, {1}, {0}, {"Shot"}, SUBSET {shot, shot_volley, pass})

SpecEncoder == InitEncoder /\ [][Next]_vars

\* ------------------------------------------------------------------------
\* Properties
\* ------------------------------------------------------------------------

\* Cell 8 has been executed (it may have raised at its last statement).
Cell8Ran == pc \notin {"cell6", "cell8"}

\* The Event Id tokens of the k-th document of the corpus.
Tokens(k) == Split(docs[k])

\* The names of the active (nonzero) indicator columns of record i.
ActiveNames(i) == {columns[k] : k \in {c \in 1 .. Len(columns) : res[i][c] # 0}}

\* The positions of the records of the (match, period) group of record i.
PeriodGroup(i) ==
  {j \in 1 .. Len(df) : df[j].match_id = df[i].match_id
                        /\ df[j].period_id = df[i].period_id}

\* The positions of the records that were grouped with record i.
SplitGroup(i) == {j \in PeriodGroup(i) : df[j].SPLIT = df[i].SPLIT}

\* The positions of the records whose tokens make up document k.
RowsOf(k) == {docRows[k][n] : n \in 1 .. Len(docRows[k])}

\* The dataset of the example: match 1, period 1, boundary flags
\* [false, true, false], labels 'pass', 'pass pass_fail', 'tackle'.
ExampleDataset ==
  /\ Len(df) = 3
  /\ \A i \in 1 .. 3 : df[i].match_id = 1 /\ df[i].period_id = 1
  /\ <<df[1].SPLIT, df[2].SPLIT, df[3].SPLIT>> = <<0, 1, 0>>
  /\ desc = <<pass, pass \o <<SP>> \o pass_fail, tackle>>

\* C1: on the example dataset the corpus is exactly the one document
\* [id(pass), id(pass pass_fail)], and no document contains id(tackle).
C1_ExampleDocument ==
  (Cell8Ran /\ ExampleDataset) =>
    /\ docs = <<get_hash(pass) \o <<SP>> \o get_hash(pass \o <<SP>> \o pass_fail)>>
    /\ \A k \in 1 .. Len(docs) :
         \A n \in 1 .. Len(Tokens(k)) : Tokens(k)[n] # get_hash(tackle)

\* C2: every document is one continuous segment of its (match, period)
\* group: a record of the group lying between two records of a document
\* belongs to that document too.
C2_ContinuousSegment ==
  Cell8Ran =>
    \A k \in 1 .. Len(docs) :
      \A i \in RowsOf(k), j \in RowsOf(k) :
        \A m \in PeriodGroup(i) : (i < m /\ m < j) => m \in RowsOf(k)

Conflict ==
  \E i \in 1 .. Len(hash), j \in 1 .. Len(hash) :
    /\ hash[i] = hash[j]
    /\ (desc[i] # desc[j] \/ df[i].type_id # df[j].type_id)

\* C5: records with the same Event Id have the same label and the same
\* event type, so the lookup tables do not depend on the order of the rows.
C5_LookupsFunctional ==
  pc # "cell6" =>
    \A i \in 1 .. Len(hash), j \in 1 .. Len(hash) :
      hash[i] = hash[j] => (desc[i] = desc[j] /\ df[i].type_id = df[j].type_id)

\* C6: when an Event Id is met with two different values, the run aborts
\* before any document is built or any training happens.
C6_ConflictAborts ==
  (Cell8Ran /\ Conflict) => (pc = "failed" /\ docs = <<>> /\ ~ev2vec.built)

\* C7: with no retained document the run ends in failure and the
\* vocabulary is never built nor trained on the empty corpus.
C7_EmptyCorpusFails ==
  /\ (Cell8Ran /\ docs = <<>>) =>
       (pc = "failed" /\ error # "none" /\ ~ev2vec.built)
  /\ pc \in {"cell9", "cell13", "done"} => docs # <<>>

\* C7 witness: a dataset with records, all in groups of one, has failed.
C7_Witness ==
  /\ pc = "failed"
  /\ Len(df) >= 2
  /\ docs = <<>>

\* C8: every token of a retained document, and every key of the vocabulary,
\* is a key of hash2text and of hash2event; the lookups never miss.
C8_TokensInLookups ==
  /\ Cell8Ran =>
       \A k \in 1 .. Len(docs) : \A n \in 1 .. Len(Tokens(k)) :
         Tokens(k)[n] \in DOMAIN hash2text \cap DOMAIN hash2event
  /\ ev2vec.built => ev2vec.vocab \subseteq DOMAIN hash2text \cap DOMAIN hash2event
  /\ error # "KeyError"

\* C8 witness: the vocabulary of a document that repeats an Event Id has
\* been labelled.
C8_Witness ==
  /\ pc = "done"
  /\ DOMAIN tsne_df # {}
  /\ \E k \in 1 .. Len(docs) : Tokens(k)[1] = Tokens(k)[2]

\* C9: the label depends only on the set of active columns: it is the
\* column names in ascending order joined by one space, whatever the
\* column order of the feature table, and equal labels have equal ids.
C9_LabelCanonical ==
  pc # "cell6" =>
    /\ \A i \in 1 .. Len(desc) :
         LET names == Split(desc[i])
             active == ActiveNames(i)
         IN /\ {names[n] : n \in 1 .. Len(names)} = active
            /\ Len(names) = Cardinality(active)
            /\ \A n \in 1 .. Len(names) - 1 : StrLess(names[n], names[n + 1])
            /\ desc[i] = Join(<<SP>>, names)
            /\ active = {shot, shot_volley} =>
                 desc[i] = shot \o <<SP>> \o shot_volley
    /\ \A i \in 1 .. Len(desc), j \in 1 .. Len(desc) :
         /\ ActiveNames(i) = ActiveNames(j) => desc[i] = desc[j]
         /\ desc[i] = desc[j] => hash[i] = hash[j]

\* C9 witness: {shot, shot_volley} is encoded from a feature table whose
\* shot_volley column comes before its shot column.
C9_Witness ==
  /\ pc # "cell6"
  /\ columns = <<shot_volley, pass, shot>>
  /\ \E i \in 1 .. Len(desc) : ActiveNames(i) = {shot, shot_volley}

====
